---------------------------- MODULE Spec2Model ----------------------------
(***************************************************************************)
(* A model of fexp's two utilities:                                        *)
(*   - write_image (src/fexp/writers.py): destination resolution, the      *)
(*     single-file codec call with its error handling, and the DICOM       *)
(*     series branch (directory scan, series number, slice write loop);    *)
(*   - plot_2d / add_2d_overlay (src/fexp/plotting.py): figure size,       *)
(*     channel normalisation, colormap choice and overlay masking.         *)
(*                                                                         *)
(* Strings (paths, file names, extensions) are sequences of one-character  *)
(* strings, so that pathlib's suffix, Python's "in", str.split, int() and  *)
(* the :03d format are computed as the code computes them.                 *)
(*                                                                         *)
(* Calls of write_image are modelled with metadata = {'spacing': ...} and  *)
(* resample = False: lines 42-53 then only build the image and do not      *)
(* touch the file system.                                                  *)
(***************************************************************************)
EXTENDS Integers, Sequences, FiniteSets, TLC

(***************************************************************************)
(* Bounds of the model.                                                    *)
(***************************************************************************)
\* Largest first-axis extent (number of slices) of a 3-D array.
MaxDepth == 2

\* Number of write_image calls made in one behaviour.
MaxCalls == 2

\* Number of write_image calls made in one behaviour of the concurrent
\* specification.
MaxConcCalls == 2

\* Largest extent of an image axis given to plot_2d.
MaxSide == 3

\* Largest number of pixels of an overlay given to plot_2d.
MaxOverlay == 2

(***************************************************************************)
(* Strings.                                                                *)
(***************************************************************************)
DigitChars == <<"0", "1", "2", "3", "4", "5", "6", "7", "8", "9">>

IsDigit(c) == \E i \in 1..10 : DigitChars[i] = c

DigitVal(c) == (CHOOSE i \in 1..10 : DigitChars[i] = c) - 1

\* Python: prefix == s[:len(prefix)]
StartsWith(s, prefix) ==
    /\ Len(prefix) <= Len(s)
    /\ SubSeq(s, 1, Len(prefix)) = prefix

EndsWith(s, suffix) ==
    /\ Len(suffix) <= Len(s)
    /\ SubSeq(s, Len(s) - Len(suffix) + 1, Len(s)) = suffix

\* Python: a in b, for strings (b holds a as a contiguous substring).
IsSubstr(a, b) ==
    \E i \in 0..(Len(b) - Len(a)) : SubSeq(b, i + 1, i + Len(a)) = a

\* Python: s.rfind(c) + 1 (0 when c does not occur).
RFind(s, c) ==
    IF \E i \in 1..Len(s) : s[i] = c
    THEN CHOOSE i \in 1..Len(s) :
            /\ s[i] = c
            /\ \A j \in (i + 1)..Len(s) : s[j] # c
    ELSE 0

\* Python: s.find(c) + 1 (0 when c does not occur).
Find(s, c) ==
    IF \E i \in 1..Len(s) : s[i] = c
    THEN CHOOSE i \in 1..Len(s) :
            /\ s[i] = c
            /\ \A j \in 1..(i - 1) : s[j] # c
    ELSE 0

\* Python: s.split(c), for a one-character separator.
RECURSIVE Split(_, _)
Split(s, c) ==
    LET i == Find(s, c)
    IN  IF i = 0
        THEN <<s>>
        ELSE <<SubSeq(s, 1, i - 1)>> \o Split(SubSeq(s, i + 1, Len(s)), c)

\* The value int() could not produce: stands for int() raising ValueError.
IntError == -1

RECURSIVE DecValue(_)
DecValue(s) ==
    IF s = <<>>
    THEN 0
    ELSE DecValue(SubSeq(s, 1, Len(s) - 1)) * 10 + DigitVal(s[Len(s)])

\* Python: int(s) for a string without sign, blank or underscore: the
\* decimal value of a non-empty string of digits, ValueError otherwise.
ParseInt(s) ==
    IF s # <<>> /\ \A i \in 1..Len(s) : IsDigit(s[i])
    THEN DecValue(s)
    ELSE IntError

RECURSIVE Decimal(_)
Decimal(n) ==
    IF n < 10
    THEN <<DigitChars[n + 1]>>
    ELSE Decimal(n \div 10) \o <<DigitChars[(n % 10) + 1]>>

RECURSIVE ZeroPad(_, _)
ZeroPad(s, w) == IF Len(s) >= w THEN s ELSE ZeroPad(<<"0">> \o s, w)

\* The format without its width: f'{n}'.
Format03dUnpadded(n) == Decimal(n)

\* Python: f'{n:03d}' for n >= 0.
Format03d(n) == ZeroPad(Decimal(n), 3)

\* pathlib: PurePath.name, the final path component.
PathName(p) == SubSeq(p, RFind(p, "/") + 1, Len(p))

\* pathlib: PurePath.suffix, the final component's last dot and what
\* follows it, '' when the name has no dot, starts or ends with its only dot.
PathSuffix(p) ==
    LET name == PathName(p)
        i == RFind(name, ".")
    IN  IF 1 < i /\ i < Len(name) THEN SubSeq(name, i, Len(name)) ELSE <<>>

\* pathlib: PurePath.parent, for an absolute path below the root.
PathParent(p) == SubSeq(p, 1, RFind(p, "/") - 1)

(***************************************************************************)
(* write_image: constants of the code.                                     *)
(***************************************************************************)
possible_exts ==
    << <<".", "n", "r", "r", "d">>,
       <<".", "m", "h", "d">>,
       <<".", "m", "h", "a">>,
       <<".", "n", "i", "i">>,
       <<".", "n", "i", "i", ".", "g", "z">>,
       <<".", "d", "c", "m">> >>

\* The literal the suffix is compared with to force compression.
NiiGzLiteral == <<"n", "i", "i", ".", "g", "z">>

ImgPrefix == <<"I", "M", "G", "-">>

DcmExt == <<".", "d", "c", "m">>

\* The first RuntimeError test: error_str.startswith('Exception thrown in
\* SimpleITK WriteImage'); the second: f'Write: Error writing {filepath}' in
\* error_str.  A codec error message is modelled by the answers to both.
CodecErrors ==
    [raised : {TRUE}, sitk_prefix : BOOLEAN, error_writing : BOOLEAN]

\* The codec was not called, or did not fail.
NoCodecError ==
    [raised |-> FALSE, sitk_prefix |-> FALSE, error_writing |-> FALSE]

(***************************************************************************)
(* The environment: destinations, existing directories, arrays.            *)
(***************************************************************************)
DirPlain == <<"/", "d">>

DirHyphen == <<"/", "p", "-", "1">>

DirExt == <<"/", "e", ".", "n", "i", "i">>

\* The directories that exist; write_image creates none.
Dirs == {DirPlain, DirHyphen, DirExt}

FileStem == <<"/", "a">>

\* Paths that are not directories: each recognised extension, an extension
\* that only contains a recognised one, an unknown one, and none.
FileDestinations ==
    {FileStem \o possible_exts[i] : i \in 1..Len(possible_exts)}
        \cup {FileStem \o <<".", "n", "i", "i", "x">>,
              FileStem \o <<".", "t", "x", "t">>,
              FileStem}

Destinations == Dirs \cup FileDestinations

\* An array is its number of dimensions and, when 3-D, its first-axis
\* extent (sitk_image.GetDepth()).
Arrays ==
    {[ndim |-> 3, depth |-> d] : d \in 1..MaxDepth}
        \cup {[ndim |-> 2, depth |-> 0], [ndim |-> 4, depth |-> 0]}

Procs == {1, 2}

NoCall == [id |-> 0, filepath |-> <<>>, ndim |-> 0, depth |-> 0,
           compression |-> FALSE]

NoResult == [kind |-> "none", msg |-> "none"]

NoPlot == [called |-> FALSE]

VARIABLES
    fs,                   \* the files on disk: path -> content
    pc,                   \* each caller's position in write_image
    call,                 \* each caller's current arguments
    fs0,                  \* the files on disk when the current call began
    series_in_directory,  \* line 72's list, as the set of its values
    curr_series,          \* line 73
    idx,                  \* the slice loop's index
    codec_calls,          \* sitk.WriteImage invocations of the current call
    codec_error,          \* the RuntimeError the codec raised, if any
    result,               \* how the current call ended
    ncalls,               \* calls started so far
    plot                  \* the last plot_2d call: its arguments and its render

vars == <<fs, pc, call, fs0, series_in_directory, curr_series, idx,
          codec_calls, codec_error, result, ncalls, plot>>

writer_vars == <<fs, pc, call, fs0, series_in_directory, curr_series, idx,
                 codec_calls, codec_error, result, ncalls>>

(***************************************************************************)
(* write_image: pure parts.                                                *)
(***************************************************************************)
\* Line 55: any([_ in filepath.suffix for _ in possible_exts]).
HasPossibleExt(filepath) ==
    \E i \in 1..Len(possible_exts) :
        IsSubstr(possible_exts[i], PathSuffix(filepath))

\* Line 57: True if filepath.suffix == 'nii.gz' else compression.
UseCompression(filepath, compression) ==
    IF PathSuffix(filepath) = NiiGzLiteral THEN TRUE ELSE compression

\* A test that lets any array of three or more dimensions through.
NdimAtLeast3(data) == data.ndim >= 3

\* Line 69: data.ndim == 3.
IsSeriesData(data) == data.ndim = 3

\* Line 66: filepath.is_dir().
IsDir(filepath) == filepath \in Dirs

\* fnmatch of a file name against 'IMG-*.dcm'.
MatchesImgPattern(name) ==
    /\ Len(name) >= Len(ImgPrefix) + Len(DcmExt)
    /\ StartsWith(name, ImgPrefix)
    /\ EndsWith(name, DcmExt)

\* Line 72: glob(os.path.join(filepath, 'IMG-*.dcm')): the full paths of
\* the directory's files whose names match.
Glob(filepath, files) ==
    {f \in files : /\ PathParent(f) = filepath
                   /\ MatchesImgPattern(PathName(f))}

\* Line 72: [int(_.split('-')[1]) for _ in glob(...)], as a set; IntError
\* is in it when int() raises for some path.
SeriesInDirectory(filepath, files) ==
    {ParseInt(Split(f, "-")[2]) : f \in Glob(filepath, files)}

SetMax(S) == CHOOSE m \in S : \A x \in S : x <= m

\* Line 73: 0 if not series_in_directory else max(series_in_directory).
CurrSeries(series) == IF series = {} THEN 0 ELSE SetMax(series)

\* Line 112: filepath / f'IMG-{curr_series:03d}-{idx:03d}.dcm'.
SlicePath(filepath, series, i) ==
    filepath \o <<"/">> \o ImgPrefix \o Format03d(series) \o <<"-">>
        \o Format03d(i) \o DcmExt

\* A write of `content` at `path`, creating or replacing the file.
Put(files, path, content) ==
    [q \in (DOMAIN files) \cup {path} |->
        IF q = path THEN content ELSE files[q]]

EmptyFs == [q \in {} |-> 0]

(***************************************************************************)
(* write_image: the state machine.                                         *)
(***************************************************************************)
Init ==
    /\ fs = EmptyFs
    /\ pc = [p \in Procs |-> "idle"]
    /\ call = [p \in Procs |-> NoCall]
    /\ fs0 = [p \in Procs |-> EmptyFs]
    /\ series_in_directory = [p \in Procs |-> {}]
    /\ curr_series = [p \in Procs |-> 0]
    /\ idx = [p \in Procs |-> 0]
    /\ codec_calls = [p \in Procs |-> <<>>]
    /\ codec_error = [p \in Procs |-> NoCodecError]
    /\ result = [p \in Procs |-> NoResult]
    /\ ncalls = 0
    /\ plot = NoPlot

Raise(p, kind, msg) ==
    /\ result' = [result EXCEPT ![p] = [kind |-> kind, msg |-> msg]]
    /\ pc' = [pc EXCEPT ![p] = "done"]

\* Lines 40-55, 66-70, 114-115: entry and destination resolution.
Enter(p, filepath, data, compression, limit) ==
    /\ pc[p] \in {"idle", "done"}
    /\ ncalls < limit
    /\ ncalls' = ncalls + 1
    /\ call' = [call EXCEPT ![p] =
                  [id |-> ncalls + 1, filepath |-> filepath,
                   ndim |-> data.ndim, depth |-> data.depth,
                   compression |-> compression]]
    /\ fs0' = [fs0 EXCEPT ![p] = fs]
    /\ series_in_directory' = [series_in_directory EXCEPT ![p] = {}]
    /\ curr_series' = [curr_series EXCEPT ![p] = 0]
    /\ idx' = [idx EXCEPT ![p] = 0]
    /\ codec_calls' = [codec_calls EXCEPT ![p] = <<>>]
    /\ codec_error' = [codec_error EXCEPT ![p] = NoCodecError]
    /\ UNCHANGED <<fs, plot>>
    /\ IF HasPossibleExt(filepath)
       THEN /\ pc' = [pc EXCEPT ![p] = "codec"]
            /\ result' = [result EXCEPT ![p] = NoResult]
       ELSE IF IsDir(filepath)
       THEN IF ~IsSeriesData(data)
            THEN Raise(p, "ValueError", "only 3D data is supported")
            ELSE /\ pc' = [pc EXCEPT ![p] = "scan"]
                 /\ result' = [result EXCEPT ![p] = NoResult]
       ELSE Raise(p, "ValueError", "extension has to be one of")

\* Lines 56-64, the codec succeeding: sitk.WriteImage writes the file.
\* It cannot succeed on a path that is a directory.
CodecWrites(p) ==
    /\ pc[p] = "codec"
    /\ ~IsDir(call[p].filepath)
    /\ LET c == UseCompression(call[p].filepath, call[p].compression)
       IN  /\ codec_calls' = [codec_calls EXCEPT ![p] =
                 Append(@, [path |-> call[p].filepath, compression |-> c])]
           /\ fs' = Put(fs, call[p].filepath,
                        [call |-> call[p].id, slice |-> -1, compression |-> c])
    /\ result' = [result EXCEPT ![p] = [kind |-> "return", msg |-> "none"]]
    /\ pc' = [pc EXCEPT ![p] = "done"]
    /\ UNCHANGED <<call, fs0, series_in_directory, curr_series, idx,
                   codec_error, ncalls, plot>>

\* Lines 58-64: what write_image does with the codec's RuntimeError e.
HandleCodecError(p, e) ==
    IF e.sitk_prefix
    THEN IF e.error_writing
         THEN Raise(p, "RuntimeError", "Cannot write to")
         ELSE /\ result' = [result EXCEPT ![p] =
                              [kind |-> "return", msg |-> "none"]]
              /\ pc' = [pc EXCEPT ![p] = "done"]
    ELSE Raise(p, "RuntimeError", "original")

\* Lines 56-64, the codec raising RuntimeError: nothing is written.
CodecFails(p) ==
    /\ pc[p] = "codec"
    /\ \E e \in CodecErrors :
          /\ codec_error' = [codec_error EXCEPT ![p] = e]
          /\ HandleCodecError(p, e)
    /\ codec_calls' = [codec_calls EXCEPT ![p] =
          Append(@, [path |-> call[p].filepath,
                     compression |-> UseCompression(call[p].filepath,
                                                    call[p].compression)])]
    /\ UNCHANGED <<fs, call, fs0, series_in_directory, curr_series, idx,
                   ncalls, plot>>

\* Lines 72-73: the scan of the directory and the series number.
Scan(p) ==
    /\ pc[p] = "scan"
    /\ LET series == SeriesInDirectory(call[p].filepath, DOMAIN fs)
       IN  /\ series_in_directory' = [series_in_directory EXCEPT ![p] = series]
           /\ IF IntError \in series
              THEN /\ Raise(p, "ValueError", "invalid literal for int()")
                   /\ UNCHANGED curr_series
              ELSE /\ curr_series' = [curr_series EXCEPT ![p] =
                                         CurrSeries(series)]
                   /\ pc' = [pc EXCEPT ![p] = "write"]
                   /\ UNCHANGED result
    /\ UNCHANGED <<fs, call, fs0, idx, codec_calls, codec_error, ncalls,
                   plot>>

\* The slice loop opening each file for exclusive creation: a slice whose
\* file name is taken is skipped.
WriteSliceExclusive(p) ==
    /\ pc[p] = "write"
    /\ idx[p] < call[p].depth
    /\ LET path == SlicePath(call[p].filepath, curr_series[p], idx[p])
       IN  fs' = IF path \in DOMAIN fs
                 THEN fs
                 ELSE Put(fs, path,
                          [call |-> call[p].id, slice |-> idx[p],
                           compression |-> call[p].compression])
    /\ idx' = [idx EXCEPT ![p] = @ + 1]
    /\ UNCHANGED <<pc, call, fs0, series_in_directory, curr_series,
                   codec_calls, codec_error, result, ncalls, plot>>

\* Lines 99-113: one iteration of the slice loop.
WriteSlice(p) ==
    /\ pc[p] = "write"
    /\ idx[p] < call[p].depth
    /\ fs' = Put(fs, SlicePath(call[p].filepath, curr_series[p], idx[p]),
                 [call |-> call[p].id, slice |-> idx[p],
                  compression |-> call[p].compression])
    /\ idx' = [idx EXCEPT ![p] = @ + 1]
    /\ UNCHANGED <<pc, call, fs0, series_in_directory, curr_series,
                   codec_calls, codec_error, result, ncalls, plot>>

\* Line 99, the loop's exit: write_image returns None.
Return(p) ==
    /\ pc[p] = "write"
    /\ idx[p] = call[p].depth
    /\ result' = [result EXCEPT ![p] = [kind |-> "return", msg |-> "none"]]
    /\ pc' = [pc EXCEPT ![p] = "done"]
    /\ UNCHANGED <<fs, call, fs0, series_in_directory, curr_series, idx,
                   codec_calls, codec_error, ncalls, plot>>

\* The arguments of the calls made.  The single-file branch never reads the
\* array's shape, so for a destination that is not a directory one array
\* stands for all.
CallArguments ==
    [filepath : Dirs, data : Arrays, compression : BOOLEAN]
        \cup [filepath : FileDestinations,
              data : {[ndim |-> 3, depth |-> 1]},
              compression : BOOLEAN]

\* A call of write_image by caller p.
WriteImage(p) ==
    \E args \in CallArguments :
        Enter(p, args.filepath, args.data, args.compression, MaxCalls)

\* One caller: calls follow one another, each running to its end.
Next ==
    \/ WriteImage(1)
    \/ CodecWrites(1)
    \/ CodecFails(1)
    \/ Scan(1)
    \/ WriteSlice(1)
    \/ Return(1)

Spec == Init /\ [][Next]_vars

(***************************************************************************)
(* Two concurrent callers writing 3-D arrays into directories, with the    *)
(* default compression=True.  The scan (lines 72-73) and each iteration   *)
(* of the slice loop (lines 99-113) are separate file-system operations,   *)
(* so the callers' steps interleave between them.                          *)
(***************************************************************************)
ConcDestinations == {DirPlain, DirHyphen}

WriteImageConc(p) ==
    \E filepath \in ConcDestinations, d \in 1..MaxDepth :
        Enter(p, filepath, [ndim |-> 3, depth |-> d], TRUE, MaxConcCalls)

NextConc ==
    \E p \in Procs :
        \/ WriteImageConc(p)
        \/ Scan(p)
        \/ WriteSlice(p)
        \/ Return(p)

SpecConc == Init /\ [][NextConc]_vars

(***************************************************************************)
(* plot_2d and add_2d_overlay.  An image is its shape; an overlay is the   *)
(* sequence of its pixel values (row-major), in units of the threshold.    *)
(***************************************************************************)
dpi == 100

Sides == 1..MaxSide

Images == [1..2 -> Sides] \cup [1..3 -> Sides]

OverlayValues == {-1, 0, 1}

Overlays == UNION {[1..n -> OverlayValues] : n \in 1..MaxOverlay}

\* overlay=None.
NoOverlay == <<>>

Thresholds == {-1, 0, 1}

\* Lines 65-67: figsize, read from the image as it was passed in.  The
\* figure size in inches is kept as the fraction pixels / dpi.
FigSize(image) ==
    [width |-> [num |-> image[2], den |-> dpi],
     height |-> [num |-> image[1], den |-> dpi]]

\* Line 104: savefig(dpi=dpi) renders figsize * dpi pixels.
Raster(figsize) ==
    [width |-> (figsize.width.num * dpi) \div figsize.width.den,
     height |-> (figsize.height.num * dpi) \div figsize.height.den]

\* Lines 73-77: channel normalisation.
Normalize(image) ==
    IF Len(image) = 3
    THEN IF image[3] = 1
         THEN <<image[1], image[2]>>
         ELSE IF image[1] = 1
         THEN <<image[2], image[3]>>
         ELSE image
    ELSE image

\* Lines 72, 79-80: the colormap given to imshow.
Cmap(image) == IF Len(image) = 2 THEN "gray" ELSE "None"

\* Line 82: imshow draws a 2-D array or one whose last axis holds 3 or 4
\* colour channels, and raises TypeError for any other shape.
ImshowAccepts(image) == Len(image) = 2 \/ image[3] \in {3, 4}

\* Lines 166-167: the pixels masked out of the overlay.  "if threshold:"
\* is false for a threshold of 0.
MaskedPixels(overlay, threshold) ==
    IF threshold # 0
    THEN {i \in 1..Len(overlay) : overlay[i] < threshold}
    ELSE {}

\* Lines 166-169: add_2d_overlay; what it draws is the pixels left unmasked.
add_2d_overlay(overlay, threshold) ==
    [masked |-> MaskedPixels(overlay, threshold),
     drawn |-> (1..Len(overlay)) \ MaskedPixels(overlay, threshold)]

\* Lines 64-110, with mask, bboxes and points left None.
plot_2d(image, overlay, overlay_threshold) ==
    LET shown == Normalize(image)
    IN  [called |-> TRUE,
         image |-> image,
         overlay |-> overlay,
         overlay_threshold |-> overlay_threshold,
         raised |-> ~ImshowAccepts(shown),
         shown |-> shown,
         cmap |-> Cmap(shown),
         raster |-> Raster(FigSize(image)),
         overlay_drawn |->
             IF overlay = NoOverlay
             THEN {}
             ELSE add_2d_overlay(overlay, overlay_threshold).drawn,
         overlay_masked |->
             IF overlay = NoOverlay
             THEN {}
             ELSE add_2d_overlay(overlay, overlay_threshold).masked]

\* The writer's variables as Init leaves them, and the arguments of one
\* plot_2d call drawn from the bounded sets.
InitPlot ==
    /\ fs = EmptyFs
    /\ pc = [p \in Procs |-> "idle"]
    /\ call = [p \in Procs |-> NoCall]
    /\ fs0 = [p \in Procs |-> EmptyFs]
    /\ series_in_directory = [p \in Procs |-> {}]
    /\ curr_series = [p \in Procs |-> 0]
    /\ idx = [p \in Procs |-> 0]
    /\ codec_calls = [p \in Procs |-> <<>>]
    /\ codec_error = [p \in Procs |-> NoCodecError]
    /\ result = [p \in Procs |-> NoResult]
    /\ ncalls = 0
    /\ \E image \in Images, overlay \in Overlays \cup {NoOverlay},
          overlay_threshold \in Thresholds :
          plot = [called |-> FALSE, image |-> image, overlay |-> overlay,
                  overlay_threshold |-> overlay_threshold]

\* The call of plot_2d on the arguments drawn.
Plot2d ==
    /\ ~plot.called
    /\ plot' = plot_2d(plot.image, plot.overlay, plot.overlay_threshold)
    /\ UNCHANGED writer_vars

NextPlot == Plot2d

SpecPlot == InitPlot /\ [][NextPlot]_vars

(***************************************************************************)
(* The properties checked.                                                 *)
(***************************************************************************)
\* The <series> field of a file name IMG-<series>-<slice>.dcm.
NameSeries(f) == ParseInt(Split(PathName(f), "-")[2])

\* The files in directory dir.
FilesIn(dir, files) == {f \in DOMAIN files : PathParent(f) = dir}

\* i < 1000 written with three digits.
ThreeDigits(i) ==
    <<DigitChars[((i \div 100) % 10) + 1],
      DigitChars[((i \div 10) % 10) + 1],
      DigitChars[(i % 10) + 1]>>

\* dir/IMG-000-<i>.dcm
FirstSeriesSlice(dir, i) ==
    dir \o <<"/", "I", "M", "G", "-", "0", "0", "0", "-">> \o ThreeDigits(i)
        \o <<".", "d", "c", "m">>

\* Caller p's destination held no file when its call began.
DirEmptyAtEntry(p) == FilesIn(call[p].filepath, fs0[p]) = {}

\* Caller p is in, or has returned from, the slice loop.
InSeriesLoop(p) ==
    \/ pc[p] = "write"
    \/ /\ pc[p] = "done"
       /\ result[p].kind = "return"
       /\ IsDir(call[p].filepath)
       /\ ~HasPossibleExt(call[p].filepath)

\* The path ends with one of the extensions exts.
EndsWithAny(filepath, exts) ==
    \E i \in 1..Len(exts) : EndsWith(filepath, exts[i])

\* .nrrd .mhd .mha .nii .nii.gz
SingleFileExts == SubSeq(possible_exts, 1, 5)

NiiGzExt == <<".", "n", "i", "i", ".", "g", "z">>

\* C1: every call that writes a series uses 1 + the largest series number
\* among the IMG-<series>-<slice>.dcm files the directory held when the call
\* began (0 when it held none), and leaves every file that was there as it
\* was.
C1_NextSeriesIsMaxPlusOne ==
    \A p \in Procs :
        InSeriesLoop(p) =>
            LET before == {NameSeries(f) :
                             f \in Glob(call[p].filepath, DOMAIN fs0[p])}
            IN  /\ curr_series[p] =
                       IF before = {} THEN 0 ELSE 1 + SetMax(before)
                /\ \A f \in DOMAIN fs0[p] :
                       f \in DOMAIN fs /\ fs[f] = fs0[p][f]

C3_KnownExtensionTakesSingleFileBranch ==
    \A p \in Procs :
        (pc[p] = "done" /\ EndsWithAny(call[p].filepath, SingleFileExts))
        => /\ Len(codec_calls[p]) = 1
           /\ codec_calls[p][1].path = call[p].filepath
           /\ result[p].kind # "ValueError"
           /\ (EndsWith(call[p].filepath, NiiGzExt) /\ ~codec_error[p].raised)
                 => call[p].filepath \in DOMAIN fs

\* C4: for a path ending with .nii.gz the codec is called with compression
\* on, whatever the compression argument; for any other path of the
\* single-file branch it is called with the compression argument.
C4_NiiGzForcesCompression ==
    \A p \in Procs :
        pc[p] = "done" =>
            /\ EndsWith(call[p].filepath, NiiGzExt) =>
                  /\ Len(codec_calls[p]) = 1
                  /\ codec_calls[p][1].compression = TRUE
            /\ (~EndsWith(call[p].filepath, NiiGzExt)
                  /\ Len(codec_calls[p]) = 1) =>
                  codec_calls[p][1].compression = call[p].compression

C6_CodecErrorAlwaysRaised ==
    \A p \in Procs :
        (pc[p] = "done" /\ codec_error[p].raised)
        => /\ result[p].kind = "RuntimeError"
           /\ result[p].msg =
                 IF codec_error[p].sitk_prefix /\ codec_error[p].error_writing
                 THEN "Cannot write to"
                 ELSE "original"

\* C7: the slice loop works under the series number its call scanned and
\* never looks at the directory again: every slice write puts the call's
\* slice at IMG-<series>-<idx>.dcm, replacing whatever file holds that name,
\* so two calls that both scanned before either wrote use the same names
\* and one's slices replace the other's (the interleaving is the witness).
C7_SliceWriteReplaces ==
    [][\A p \in Procs :
          (pc[p] = "write" /\ idx'[p] = idx[p] + 1)
          => LET path == SlicePath(call[p].filepath, curr_series[p], idx[p])
             IN  /\ path \in DOMAIN fs'
                 /\ fs'[path].call = call[p].id
                 /\ fs'[path].slice = idx[p]]_vars

\* Two calls of two slices each on /d both scanned the empty directory,
\* chose series 0, and the series on disk mixes them: slice 0 is the first
\* call's, slice 1 is the second's.
C7_Witness ==
    /\ pc[1] = "done" /\ pc[2] = "done"
    /\ call[1].filepath = DirPlain /\ call[2].filepath = DirPlain
    /\ call[1].depth = 2 /\ call[2].depth = 2
    /\ series_in_directory[1] = {} /\ series_in_directory[2] = {}
    /\ curr_series[1] = curr_series[2]
    /\ FilesIn(DirPlain, fs) =
          {FirstSeriesSlice(DirPlain, 0), FirstSeriesSlice(DirPlain, 1)}
    /\ fs[FirstSeriesSlice(DirPlain, 0)].call = call[1].id
    /\ fs[FirstSeriesSlice(DirPlain, 1)].call = call[2].id

\* C8: the raster is W x H pixels, W and H being the image's width and
\* height after channel normalisation; the image is drawn with the gray
\* colormap exactly when a singleton channel was squeezed or it was 2-D.
C8_RasterMatchesImage ==
    (plot.called /\ ~plot.raised) =>
        /\ plot.raster = [width |-> plot.shown[2], height |-> plot.shown[1]]
        /\ plot.cmap = "gray" <=>
              \/ Len(plot.image) = 2
              \/ plot.image[3] = 1
              \/ plot.image[1] = 1

\* C9: for every overlay and threshold, the masked pixels are exactly those
\* strictly below the threshold, so an overlay wholly below the threshold
\* draws nothing.
C9_OverlayMaskedBelowThreshold ==
    (plot.called /\ plot.overlay # NoOverlay) =>
        /\ plot.overlay_masked =
              {i \in 1..Len(plot.overlay) :
                 plot.overlay[i] < plot.overlay_threshold}
        /\ (\A i \in 1..Len(plot.overlay) :
               plot.overlay[i] < plot.overlay_threshold)
              => plot.overlay_drawn = {}

\* C10: the scan never raises, and the series numbers it reads are the
\* <series> fields of the names of the directory's IMG-*.dcm files,
\* whatever the directory's path.
C10_SeriesReadFromFileName ==
    \A p \in Procs :
        (/\ pc[p] \in {"write", "done"}
         /\ IsDir(call[p].filepath)
         /\ ~HasPossibleExt(call[p].filepath)
         /\ call[p].ndim = 3)
        => /\ result[p].kind # "ValueError"
           /\ series_in_directory[p] =
                 {NameSeries(f) :
                    f \in Glob(call[p].filepath, DOMAIN fs0[p])}

=============================================================================
